---- MODULE Spec2Model ----
(***************************************************************************)
(* A model of the planner of ryanwmoore/planner (src/operators.py): the    *)
(* State value object (attribute dictionary, freezing, hashing, copying),  *)
(* the Operator interface with the operators of the test-suite and of the  *)
(* river-crossing example, and the generation loop of Planner.plan().      *)
(***************************************************************************)
EXTENDS Integers, Sequences, FiniteSets, TLC

VARIABLES
    suj,          \* the object under test: the __dict__ of a State, or a strategy
    other,        \* the __dict__ of the State returned by suj.copy(), or NoObject
    raised,       \* the exception the last State operation raised, or "none"
    op,           \* the last State operation: [name, target, key, value]
    problem,      \* the arguments the Planner was constructed with
    args,         \* the arguments Planner(...) is called with
    exception,    \* the exception Planner(...) or plan() raised, or NoException
    first_run,    \* the outcome of the caller's first plan() run, or NoRun
    graph,        \* the argument graph of plan(): None, or the recorder with the
                  \* add_node and add_edge calls it received
    pc,           \* position of the caller: "new" before Planner(...), "failed" when it
                  \* raised, "idle" before plan(), in plan() "pass1", "pass2", "endgen",
                  \* "done" when plan() returned, "raised" when it raised
    queue,        \* plan(): queue, a sequence of Planner nodes [state, description]
    new_queue,    \* plan(): new_queue
    idx,          \* plan(): position of the running for-loop in queue
    seen_states,  \* plan(): seen_states
    steps,        \* Planner.steps of the root planner
    end_result,   \* plan(): end_result
    result,       \* what plan() returned
    expanded      \* history: field maps of the states q._apply() was called on

stateVars == <<suj, other, raised, op>>
planVars == <<problem, args, exception, first_run, graph, pc, queue, new_queue, idx, seen_states,
              steps, end_result, result, expanded>>
vars == <<suj, other, raised, op, problem, args, exception, first_run, graph, pc, queue, new_queue,
          idx, seen_states, steps, end_result, result, expanded>>

-----------------------------------------------------------------------------
(* Bounds of the model.                                                    *)

\* hash values are taken modulo HashMod (Python: modulo 2^61 - 1)
HashMod == 3
\* the generated operator graphs have the states 0 .. NumNodes - 1
NumNodes == 4
\* the integers a test assigns to a field are 1 .. MaxInt
MaxInt == 1
\* a strategy holds at most MaxQueue elements
MaxQueue == 3
\* the elements added to a strategy are 1 .. NumItems
NumItems == 3

-----------------------------------------------------------------------------
(* Python values.  A value is a record [kind, val]; kind is the Python     *)
(* type.                                                                   *)

PyInt(n) == [kind |-> "int", val |-> n]
PyStr(s) == [kind |-> "str", val |-> s]
PyBool(b) == [kind |-> "bool", val |-> b]
PyEnum(name) == [kind |-> "enum", val |-> name]
PyTuple(seq) == [kind |-> "tuple", val |-> seq]
PyFrozenset(S) == [kind |-> "frozenset", val |-> S]
PyList(seq) == [kind |-> "list", val |-> seq]
None == [kind |-> "NoneType", val |-> 0]

\* an object that does not exist (yet)
NoObject == [kind |-> "absent", val |-> 0]

RECURSIVE SumSeq(_)
SumSeq(seq) == IF seq = <<>> THEN 0 ELSE Head(seq) + SumSeq(Tail(seq))

RECURSIVE SetToSeq(_)
SetToSeq(S) == IF S = {} THEN <<>>
               ELSE LET x == CHOOSE y \in S : TRUE IN <<x>> \o SetToSeq(S \ {x})

\* hash() of a string: the strings the model uses, each with a fixed number
StrCode(s) ==
    CASE s = "Fox" -> 1 [] s = "Goose" -> 2 [] s = "BagOfBeans" -> 3
      [] s = "Left" -> 4 [] s = "Right" -> 6
      [] s = "attribute" -> 7 [] s = "counter" -> 8 [] s = "n" -> 9
      [] s = "farmer_location" -> 10 [] s = "farmer_objects" -> 11 [] s = "shore" -> 12
      [] s = "__dict__" -> 13 [] s = "__visitmarker" -> 14
      [] s = "__isfrozen" -> 15 [] s = "__hash_value" -> 16
      [] OTHER -> 0

\* obj.__hash__() of a value.  __setattr__ stores hashable values only, so the
\* last case (a value that has no hash) is never evaluated for a field.
RECURSIVE PyHash(_)
PyHash(v) ==
    CASE v.kind = "int" -> v.val % HashMod
      [] v.kind = "bool" -> IF v.val THEN 1 ELSE 0
      [] v.kind = "str" -> StrCode(v.val) % HashMod
      [] v.kind = "enum" -> StrCode(v.val) % HashMod
      [] v.kind = "NoneType" -> 3 % HashMod
      [] v.kind = "frozenset" ->
            SumSeq([i \in 1..Cardinality(v.val) |-> PyHash(SetToSeq(v.val)[i])]) % HashMod
      [] v.kind = "tuple" ->
            SumSeq([i \in 1..Len(v.val) |-> i * PyHash(v.val[i]) + 1]) % HashMod
      [] OTHER -> 0

\* a hashability test that looks at the outermost type only
IsHashableShallow(obj) == obj.kind \notin {"list", "set", "dict"}

\* State._is_hashable: obj.__hash__() raises TypeError for a list, a set, a
\* dict, and for a tuple that contains one of them
RECURSIVE _is_hashable(_)
_is_hashable(obj) ==
    CASE obj.kind \in {"list", "set", "dict"} -> FALSE
      [] obj.kind = "tuple" -> \A i \in 1..Len(obj.val) : _is_hashable(obj.val[i])
      [] OTHER -> TRUE

\* bool(value)
Truthy(v) ==
    CASE v.kind = "bool" -> v.val
      [] v.kind = "int" -> v.val # 0
      [] v.kind = "NoneType" -> FALSE
      [] v.kind \in {"tuple", "list"} -> v.val # <<>>
      [] v.kind = "frozenset" -> v.val # {}
      [] OTHER -> TRUE

-----------------------------------------------------------------------------
(* class State.  A State object is its __dict__: a function from attribute *)
(* names to values.                                                        *)

EmptyDict == [k \in {} |-> None]

DictSet(d, key, value) == [k \in DOMAIN d \cup {key} |-> IF k = key THEN value ELSE d[k]]

DictDel(d, keys) == [k \in DOMAIN d \ keys |-> d[k]]

ControlFields == {"__visitmarker", "__isfrozen", "__hash_value"}

\* a filter that forgets to delete the visit marker
FilterKeepsVisitMarker(d) == DictDel(d, {"__isfrozen", "__hash_value"})

filter_control_fields(d) == DictDel(d, ControlFields)

\* an equality that compares the whole __dict__
StateEqWholeDict(d, e) == d = e

\* State.__eq__ for two State objects
StateEq(d, e) == filter_control_fields(d) = filter_control_fields(e)

is_frozen(d) == "__isfrozen" \in DOMAIN d /\ Truthy(d["__isfrozen"])

has_visit_marker(d) == "__visitmarker" \in DOMAIN d

\* sorted(): the attribute names of the model in lexicographic order
SortedKeys == <<"__dict__", "attribute", "counter", "farmer_location", "farmer_objects",
                "n", "shore">>

\* tuple(sorted(contents.items())).__hash__()
ItemsHash(d) ==
    LET keys == SelectSeq(SortedKeys, LAMBDA k : k \in DOMAIN d)
    IN  SumSeq([i \in 1..Len(keys) |->
                  i * (StrCode(keys[i]) + 2 * PyHash(d[keys[i]])) + 1]) % HashMod

\* a frozen test that lets every name with two leading underscores through
SetattrExemptsControlFields(d, key, value) ==
    IF is_frozen(d) /\ key \notin ControlFields /\ key # "__dict__" THEN "AttributeError"
    ELSE IF ~_is_hashable(value) THEN "TypeError"
    ELSE "none"

\* State.__setattr__: the exception it raises, "none" when it sets the key
SetattrRaises(d, key, value) ==
    IF is_frozen(d) /\ key # "__visitmarker" /\ key # "__dict__" THEN "AttributeError"
    ELSE IF ~_is_hashable(value) THEN "TypeError"
    ELSE "none"

__setattr__(d, key, value) ==
    IF SetattrRaises(d, key, value) = "none" THEN DictSet(d, key, value) ELSE d

freeze(d) ==
    IF ~is_frozen(d)
    THEN LET h == ItemsHash(filter_control_fields(d))
         IN  __setattr__(__setattr__(d, "__hash_value", PyInt(h)), "__isfrozen", PyBool(TRUE))
    ELSE d

set_visit_marker(d, value) == DictSet(d, "__visitmarker", value)

\* State.__hash__: the state it leaves (frozen) and the value it returns
HashedState(d) == freeze(d)

__hash__(d) == freeze(d)["__hash_value"].val

\* a copy that keeps the visit marker and the freeze bookkeeping of its source
CopyKeepsControlFields(d) == d

\* State.copy: deepcopy, then the control fields are deleted from the copy
copy(d) == filter_control_fields(d)

-----------------------------------------------------------------------------
(* The State object under test: the operations a caller can perform on a   *)
(* State (suj) and on its copy (other).                                    *)

\* the values a caller assigns: integers, a list, a tuple holding a list
StateValues == {PyInt(i) : i \in 1..MaxInt}
                 \cup {PyList(<<PyInt(1)>>), PyTuple(<<PyList(<<>>)>>)}

\* the attribute names a caller assigns
StateKeys == {"attribute", "__dict__", "__visitmarker"}

NoProblem == [kind |-> "none"]
NoArgs == [kind |-> "none"]
NoRun == [kind |-> "none"]
NoException == [type |-> "none", message |-> ""]

PlanIdle ==
    /\ problem = NoProblem
    /\ args = NoArgs
    /\ exception = NoException
    /\ first_run = NoRun
    /\ graph = None
    /\ pc = "idle"
    /\ queue = <<>>
    /\ new_queue = <<>>
    /\ idx = 0
    /\ seen_states = {}
    /\ steps = 0
    /\ end_result = None
    /\ result = None
    /\ expanded = <<>>

StateInit ==
    /\ suj = EmptyDict
    /\ other = NoObject
    /\ raised = "none"
    /\ op = [name |-> "State", target |-> "suj", key |-> "", value |-> None]
    /\ PlanIdle

\* suj.key = value
SetattrSuj ==
    \E key \in StateKeys, value \in StateValues :
        /\ suj' = __setattr__(suj, key, value)
        /\ raised' = SetattrRaises(suj, key, value)
        /\ op' = [name |-> "setattr", target |-> "suj", key |-> key, value |-> value]
        /\ UNCHANGED other
        /\ UNCHANGED planVars

\* other.key = value
SetattrOther ==
    \E key \in StateKeys, value \in StateValues :
        /\ other # NoObject
        /\ other' = __setattr__(other, key, value)
        /\ raised' = SetattrRaises(other, key, value)
        /\ op' = [name |-> "setattr", target |-> "other", key |-> key, value |-> value]
        /\ UNCHANGED suj
        /\ UNCHANGED planVars

\* suj.freeze()
FreezeSuj ==
    /\ suj' = freeze(suj)
    /\ raised' = "none"
    /\ op' = [name |-> "freeze", target |-> "suj", key |-> "", value |-> None]
    /\ UNCHANGED other
    /\ UNCHANGED planVars

\* hash(suj)
HashSuj ==
    /\ suj' = HashedState(suj)
    /\ raised' = "none"
    /\ op' = [name |-> "hash", target |-> "suj", key |-> "", value |-> PyInt(__hash__(suj))]
    /\ UNCHANGED other
    /\ UNCHANGED planVars

\* suj.__isfrozen = False, an attempt to make suj mutable again
UnfreezeSuj ==
    /\ suj' = __setattr__(suj, "__isfrozen", PyBool(FALSE))
    /\ raised' = SetattrRaises(suj, "__isfrozen", PyBool(FALSE))
    /\ op' = [name |-> "setattr", target |-> "suj", key |-> "__isfrozen",
              value |-> PyBool(FALSE)]
    /\ UNCHANGED other
    /\ UNCHANGED planVars

\* suj.set_visit_marker(value)
SetVisitMarkerSuj ==
    \E value \in StateValues :
        /\ suj' = set_visit_marker(suj, value)
        /\ raised' = "none"
        /\ op' = [name |-> "set_visit_marker", target |-> "suj", key |-> "__visitmarker",
                  value |-> value]
        /\ UNCHANGED other
        /\ UNCHANGED planVars

\* a copy() that runs the in-place filter on the __dict__ of the source
CopySujFiltersSource ==
    /\ other' = copy(suj)
    /\ suj' = filter_control_fields(suj)
    /\ raised' = "none"
    /\ op' = [name |-> "copy", target |-> "suj", key |-> "", value |-> None]
    /\ UNCHANGED planVars

\* other = suj.copy()
CopySuj ==
    /\ other' = copy(suj)
    /\ raised' = "none"
    /\ op' = [name |-> "copy", target |-> "suj", key |-> "", value |-> None]
    /\ UNCHANGED suj
    /\ UNCHANGED planVars

StateNext ==
    \/ SetattrSuj
    \/ SetattrOther
    \/ FreezeSuj
    \/ HashSuj
    \/ UnfreezeSuj
    \/ SetVisitMarkerSuj
    \/ CopySuj

StateSpec == StateInit /\ [][StateNext]_vars

-----------------------------------------------------------------------------
(* Operators.  An operator is a record; CanApply and Apply dispatch on its *)
(* class (name).  Apply returns the sequence of the pairs                  *)
(* <<successor __dict__, description>> that the generator yields.          *)

\* test_tiny_smoke_test: class AddN
AddN(increment) == [name |-> "AddN", increment |-> increment]

AddN_can_apply(self, state) == TRUE

AddN_apply(self, state) ==
    LET copy0 == copy(state)
        copy1 == __setattr__(copy0, "counter", PyInt(copy0["counter"].val + self.increment))
    IN  << <<copy1, "add " \o ToString(self.increment)>> >>

\* examples/fox_beans_goose.py
Fox == PyEnum("Fox")
Goose == PyEnum("Goose")
BagOfBeans == PyEnum("BagOfBeans")
FarmersObjects == <<Fox, Goose, BagOfBeans>>
Left == PyEnum("Left")
Right == PyEnum("Right")

Shore(l, r) == PyTuple(<<PyFrozenset(l), PyFrozenset(r)>>)
ShoreLeft(shore) == shore.val[1].val
ShoreRight(shore) == shore.val[2].val

\* sorted(the_set, key=lambda o: o.name)
SortedNames == <<"BagOfBeans", "Fox", "Goose">>

RECURSIVE Join(_)
Join(names) == IF Len(names) = 1 THEN names[1] ELSE names[1] \o ", " \o Join(Tail(names))

format_set(the_set) ==
    IF the_set = {} THEN "nothing"
    ELSE Join(SelectSeq(SortedNames, LAMBDA n : PyEnum(n) \in the_set))

BoatAcross == [name |-> "BoatAcross"]
PickUp(targets) == [name |-> "PickUp", targets |-> targets]
Drop(targets) == [name |-> "Drop", targets |-> targets]

allowed_alone(objects_together) ==
    LET goose_and_fox == Goose \in objects_together /\ Fox \in objects_together
        goose_and_beans == Goose \in objects_together /\ BagOfBeans \in objects_together
    IN  ~goose_and_beans /\ ~goose_and_fox

nearby_shore_contents(state) ==
    IF state["farmer_location"] = Left THEN ShoreLeft(state["shore"])
    ELSE ShoreRight(state["shore"])

\* a boat that also takes two objects
BoatCarriesTwo(self, state) ==
    /\ Cardinality(state["farmer_objects"].val) <= 2
    /\ allowed_alone(nearby_shore_contents(state))

\* a boat that leaves whatever is on the shore
BoatIgnoresShore(self, state) == Cardinality(state["farmer_objects"].val) <= 1

BoatAcross_can_apply(self, state) ==
    /\ Cardinality(state["farmer_objects"].val) <= 1
    /\ allowed_alone(nearby_shore_contents(state))

BoatAcross_apply(self, state) ==
    LET copy0 == copy(state)
    IN  IF copy0["farmer_location"] = Left
        THEN << <<__setattr__(copy0, "farmer_location", Right), "boat to the right shore">> >>
        ELSE << <<__setattr__(copy0, "farmer_location", Left), "boat to the left shore">> >>

PickUp_can_apply(self, state) ==
    (nearby_shore_contents(state) \cap self.targets) = self.targets

PickUp_apply(self, state) ==
    LET copy0 == copy(state)
        shore == copy0["shore"]
        copy1 == IF state["farmer_location"] = Left
                 THEN __setattr__(copy0, "shore",
                                  Shore(ShoreLeft(shore) \ self.targets, ShoreRight(shore)))
                 ELSE __setattr__(copy0, "shore",
                                  Shore(ShoreLeft(shore), ShoreRight(shore) \ self.targets))
        copy2 == __setattr__(copy1, "farmer_objects",
                             PyFrozenset(copy1["farmer_objects"].val \cup self.targets))
    IN  << <<copy2, "pickup " \o format_set(self.targets)>> >>

Drop_can_apply(self, state) ==
    (state["farmer_objects"].val \cap self.targets) = self.targets

Drop_apply(self, state) ==
    LET copy0 == copy(state)
        shore == copy0["shore"]
        copy1 == IF state["farmer_location"] = Left
                 THEN __setattr__(copy0, "shore",
                                  Shore(ShoreLeft(shore) \cup self.targets, ShoreRight(shore)))
                 ELSE __setattr__(copy0, "shore",
                                  Shore(ShoreLeft(shore), ShoreRight(shore) \cup self.targets))
        copy2 == __setattr__(copy1, "farmer_objects",
                             PyFrozenset(copy1["farmer_objects"].val \ self.targets))
    IN  << <<copy2, "drop " \o format_set(self.targets)>> >>

\* Operators over the states {n: 0}, ..., {n: NumNodes - 1}, the operator
\* graphs the planner is run on.
\* Walk(a, c): applicable unless n = c; yields one successor, n + a modulo NumNodes
Walk(a, c) == [name |-> "Walk", a |-> a, c |-> c]
\* Fork(b): always applicable; yields n + 2 when that is a state, and then b
\* when n is even: zero, one or two successors
Fork(b) == [name |-> "Fork", b |-> b]

Walk_can_apply(self, state) == state["n"].val # self.c

Walk_apply(self, state) ==
    LET copy0 == copy(state)
    IN  << <<__setattr__(copy0, "n", PyInt((copy0["n"].val + self.a) % NumNodes)), "walk">> >>

Fork_can_apply(self, state) == TRUE

Fork_apply(self, state) ==
    LET n == state["n"].val
        skip == IF n + 2 < NumNodes
                THEN << <<__setattr__(copy(state), "n", PyInt(n + 2)), "skip">> >>
                ELSE <<>>
        jump == IF n % 2 = 0
                THEN << <<__setattr__(copy(state), "n", PyInt(self.b)), "jump">> >>
                ELSE <<>>
    IN  skip \o jump

\* an instance of CompoundOperator
CompoundOperator == [name |-> "CompoundOperator"]

\* isinstance(operator, CompoundOperator)
IsCompoundOperator(operator) == operator.name = "CompoundOperator"

\* operator.can_apply(state)
CanApply(operator, state) ==
    CASE operator.name = "AddN" -> AddN_can_apply(operator, state)
      [] operator.name = "BoatAcross" -> BoatAcross_can_apply(operator, state)
      [] operator.name = "PickUp" -> PickUp_can_apply(operator, state)
      [] operator.name = "Drop" -> Drop_can_apply(operator, state)
      [] operator.name = "Walk" -> Walk_can_apply(operator, state)
      [] operator.name = "Fork" -> Fork_can_apply(operator, state)

\* operator.apply(state)
Apply(operator, state) ==
    CASE operator.name = "AddN" -> AddN_apply(operator, state)
      [] operator.name = "BoatAcross" -> BoatAcross_apply(operator, state)
      [] operator.name = "PickUp" -> PickUp_apply(operator, state)
      [] operator.name = "Drop" -> Drop_apply(operator, state)
      [] operator.name = "Walk" -> Walk_apply(operator, state)
      [] operator.name = "Fork" -> Fork_apply(operator, state)

\* the goal: a State compared with State.__eq__, or an object of a subclass
\* of State that overrides __eq__ (test_go_to_park_with_frisbee: InParkWithFrisbee)
GoalState(d) == [kind |-> "State", dict |-> d]
GoalAtLeast(g) == [kind |-> "AtLeast", g |-> g]

\* self.end_state == state
GoalEq(end_state, state) ==
    CASE end_state.kind = "State" -> StateEq(end_state.dict, state)
      [] end_state.kind = "AtLeast" -> state["n"].val >= end_state.g

-----------------------------------------------------------------------------
(* class Planner.  A Planner node is [state, description]; operators,      *)
(* end_state and search_strategy are shared by all nodes (problem).        *)

\* BreadthFirstSearchStrategy(): an empty deque
BreadthFirstSearchStrategy == [kind |-> "BreadthFirstSearchStrategy", queue |-> <<>>]

\* DepthFirstSearchStrategy(): an empty deque
DepthFirstSearchStrategy == [kind |-> "DepthFirstSearchStrategy", stack |-> <<>>]

\* the deque of a strategy: self.queue or self.stack
Deque(self) ==
    IF self.kind = "BreadthFirstSearchStrategy" THEN self.queue ELSE self.stack

\* add_state(self, state): deque.append
add_state(self, state) ==
    IF self.kind = "BreadthFirstSearchStrategy"
    THEN [self EXCEPT !.queue = Append(@, state)]
    ELSE [self EXCEPT !.stack = Append(@, state)]

\* pop_next_state(self, state): deque.popleft() or deque.pop(); state is not
\* used.  The exception, the value returned and the strategy afterwards
pop_next_state(self, state) ==
    IF Deque(self) = <<>>
    THEN [raised |-> "IndexError", value |-> None, self |-> self]
    ELSE IF self.kind = "BreadthFirstSearchStrategy"
    THEN [raised |-> "none", value |-> Head(self.queue),
          self |-> [self EXCEPT !.queue = Tail(@)]]
    ELSE [raised |-> "none", value |-> self.stack[Len(self.stack)],
          self |-> [self EXCEPT !.stack = SubSeq(@, 1, Len(@) - 1)]]

\* suj = BreadthFirstSearchStrategy() or suj = DepthFirstSearchStrategy()
StrategyInit ==
    /\ suj \in {BreadthFirstSearchStrategy, DepthFirstSearchStrategy}
    /\ other = NoObject
    /\ raised = "none"
    /\ op = [name |-> "SearchStrategy", target |-> "suj", key |-> "", value |-> None]
    /\ PlanIdle

\* suj.add_state(x)
AddState ==
    \E x \in 1..NumItems :
        /\ Len(Deque(suj)) < MaxQueue
        /\ suj' = add_state(suj, PyInt(x))
        /\ raised' = "none"
        /\ op' = [name |-> "add_state", target |-> "suj", key |-> "state", value |-> PyInt(x)]
        /\ UNCHANGED other
        /\ UNCHANGED planVars

\* suj.pop_next_state(None): a call that passes the parameter state
PopNextState ==
    /\ suj' = pop_next_state(suj, None).self
    /\ raised' = pop_next_state(suj, None).raised
    /\ op' = [name |-> "pop_next_state", target |-> "suj", key |-> "state",
              value |-> pop_next_state(suj, None).value]
    /\ UNCHANGED other
    /\ UNCHANGED planVars

\* suj.pop_next_state(): the call of the strategy tests; the parameter state
\* has no default, Python raises TypeError before the body runs
PopNextStateNoArgument ==
    /\ suj' = suj
    /\ raised' = "TypeError"
    /\ op' = [name |-> "pop_next_state", target |-> "suj", key |-> "", value |-> None]
    /\ UNCHANGED other
    /\ UNCHANGED planVars

StrategyNext ==
    \/ AddState
    \/ PopNextState
    \/ PopNextStateNoArgument

StrategySpec == StrategyInit /\ [][StrategyNext]_vars

\* the Planner attributes state (the State's __dict__), operators, end_state
\* and search_strategy; description = []
Planner(state, operators, end_state, search_strategy) ==
    [state |-> state, operators |-> operators, end_state |-> end_state,
     search_strategy |-> search_strategy]

Node(state, description) == [state |-> state, description |-> description]

\* a State built by assigning its fields one by one
NewState(fields) == fields

\* test_tiny_smoke_test
CounterProblem ==
    Planner(NewState([counter |-> PyInt(0)]), <<AddN(1), AddN(2)>>,
            GoalState(NewState([counter |-> PyInt(5)])), BreadthFirstSearchStrategy)

\* examples/fox_beans_goose.py, __main__
RiverStart ==
    NewState([farmer_objects |-> PyFrozenset({}),
              shore |-> Shore({Fox, BagOfBeans, Goose}, {}),
              farmer_location |-> Left])

RiverEnd ==
    NewState([shore |-> Shore({}, {Goose, Fox, BagOfBeans}),
              farmer_objects |-> PyFrozenset({}),
              farmer_location |-> Right])

RECURSIVE RiverOperators(_)
RiverOperators(objects) ==
    IF objects = <<>> THEN <<>>
    ELSE <<PickUp({Head(objects)}), Drop({Head(objects)})>> \o RiverOperators(Tail(objects))

RiverProblem ==
    Planner(RiverStart, <<BoatAcross>> \o RiverOperators(FarmersObjects),
            GoalState(RiverEnd), BreadthFirstSearchStrategy)

\* a run on a generated operator graph, from the state {n: start}
GraphProblem(start, a, c, b, goal) ==
    Planner(NewState([n |-> PyInt(start)]), <<Walk(a, c), Fork(b)>>, goal,
            BreadthFirstSearchStrategy)

\* the sequence seq with the element e inserted at position p
InsertAt(seq, p, e) == SubSeq(seq, 1, p - 1) \o <<e>> \o SubSeq(seq, p, Len(seq))

\* a run on a generated operator graph whose operator list holds a
\* CompoundOperator at position p
CompoundProblem(start, a, c, b, p, goal) ==
    Planner(NewState([n |-> PyInt(start)]),
            InsertAt(<<Walk(a, c), Fork(b)>>, p, CompoundOperator), goal,
            BreadthFirstSearchStrategy)

\* isinstance(x, State): State and its subclasses
IsInstanceState(x) == x.kind \in {"State", "AtLeast"}

\* isinstance(x, Operator): the operators are the objects with a class name
IsInstanceOperator(x) == "name" \in DOMAIN x

\* isinstance(x, SearchStrategy)
IsInstanceSearchStrategy(x) ==
    x.kind \in {"BreadthFirstSearchStrategy", "DepthFirstSearchStrategy"}

\* str(x), as "{...}".format(...) renders a str, an int or None
PyStrOf(x) ==
    CASE x.kind = "str" -> x.val
      [] x.kind = "int" -> ToString(x.val)
      [] x.kind = "NoneType" -> "None"

\* repr(x) of a list element: a quoted str, or object.__repr__ of an operator
\* (the address it prints is left out)
PyRepr(x) ==
    IF IsInstanceOperator(x) THEN "<" \o x.name \o " object>"
    ELSE IF x.kind = "str" THEN "'" \o x.val \o "'"
    ELSE PyStrOf(x)

RECURSIVE JoinRepr(_)
JoinRepr(seq) ==
    IF seq = <<>> THEN ""
    ELSE IF Len(seq) = 1 THEN PyRepr(seq[1])
    ELSE PyRepr(seq[1]) \o ", " \o JoinRepr(Tail(seq))

\* str(list)
PyListStr(seq) == "[" \o JoinRepr(seq) \o "]"

TypeError(message) == [type |-> "TypeError", message |-> message]

\* a constructor that forgets to check end_state
InitRaisesUncheckedEndState(state, operators, end_state, search_strategy) ==
    IF ~IsInstanceState(state)
    THEN TypeError("Not a valid State: " \o PyStrOf(state))
    ELSE IF \E i \in 1..Len(operators) : ~IsInstanceOperator(operators[i])
    THEN TypeError("Not all Operators are valid: " \o PyListStr(operators))
    ELSE IF ~IsInstanceSearchStrategy(search_strategy)
    THEN TypeError("Not a valid SearchStrategy: " \o PyStrOf(search_strategy))
    ELSE NoException

\* Planner.__init__: the exception it raises, NoException when it constructs
InitRaises(state, operators, end_state, search_strategy) ==
    IF ~IsInstanceState(state)
    THEN TypeError("Not a valid State: " \o PyStrOf(state))
    ELSE IF \E i \in 1..Len(operators) : ~IsInstanceOperator(operators[i])
    THEN TypeError("Not all Operators are valid: " \o PyListStr(operators))
    ELSE IF ~IsInstanceState(end_state)
    THEN TypeError("Not a valid State: " \o PyStrOf(end_state))
    ELSE IF ~IsInstanceSearchStrategy(search_strategy)
    THEN TypeError("Not a valid SearchStrategy: " \o PyStrOf(search_strategy))
    ELSE NoException

\* a membership test that trusts the hash and never compares the states
InSeenByHashOnly(state, seen) ==
    \E e \in seen : e["__hash_value"].val = __hash__(state)

\* a membership test that compares the whole __dict__, visit marker included
InSeenComparingMarkers(state, seen) ==
    \E e \in seen : e = HashedState(state)

\* state in seen_states: the set looks the hash up, then compares with ==

InSeen(state, seen) ==
    \E e \in seen : e["__hash_value"].val = __hash__(state) /\ StateEq(e, state)

\* nextState.freeze() for every pair an operator yields
RECURSIVE FreezeAll(_)
FreezeAll(pairs) ==
    IF pairs = <<>> THEN <<>>
    ELSE << <<freeze(Head(pairs)[1]), Head(pairs)[2]>> >> \o FreezeAll(Tail(pairs))

\* an expansion that returns after the first applicable operator
RECURSIVE MakeNextStatesFirstOnly(_, _, _)
MakeNextStatesFirstOnly(operators, state, i) ==
    IF i > Len(operators) THEN <<>>
    ELSE IF IsCompoundOperator(operators[i]) THEN <<>>
    ELSE IF CanApply(operators[i], state) THEN FreezeAll(Apply(operators[i], state))
    ELSE MakeNextStatesFirstOnly(operators, state, i + 1)

\* an expansion that passes over a CompoundOperator without a word
MakeNextStatesNeverRaises(operators) == NoException

\* Planner._makeNextStates: the exception the generator ends with; it raises
\* when the loop over the operators reaches a CompoundOperator
MakeNextStatesRaises(operators) ==
    IF \E i \in 1..Len(operators) : IsCompoundOperator(operators[i])
    THEN [type |-> "ValueError", message |-> "I didn't code compound operators yet!"]
    ELSE NoException

\* Planner._makeNextStates: what the generator yields from position i on, up
\* to the end of the operators or to the CompoundOperator it raises at
RECURSIVE MakeNextStatesFrom(_, _, _)
MakeNextStatesFrom(operators, state, i) ==
    IF i > Len(operators) THEN <<>>
    ELSE IF IsCompoundOperator(operators[i]) THEN <<>>
    ELSE (IF CanApply(operators[i], state) THEN FreezeAll(Apply(operators[i], state))
          ELSE <<>>)
         \o MakeNextStatesFrom(operators, state, i + 1)

_makeNextStates(operators, state) == MakeNextStatesFrom(operators, state, 1)

\* children that forget the path of their parent
ApplyDropsParentPath(operators, q) ==
    CHOOSE children \in
        { [i \in 1..Len(nexts) |-> Node(nexts[i][1], <<nexts[i][2]>>)] :
          nexts \in {_makeNextStates(operators, q.state)} } : TRUE

\* Planner._apply: one child node for every successor.  nexts ranges over
\* the one-element set of the generator's output, so the generator runs once
\* for the call, as in the for loop of the source.
_apply(operators, q) ==
    CHOOSE children \in
        { [i \in 1..Len(nexts) |-> Node(nexts[i][1], Append(q.description, nexts[i][2]))] :
          nexts \in {_makeNextStates(operators, q.state)} } : TRUE

\* a recorder (nx.DiGraph() in the example) that has received no call
EmptyRecorder == [kind |-> "Recorder", events |-> <<>>]

\* node_attributes of a discovered state (lines 210-221)
NodeAttributes(seen, end_state, state) ==
    IF Cardinality(seen) = 0
    THEN [fillcolor |-> "yellow", shape |-> "rectangle", style |-> "filled"]
    ELSE IF GoalEq(end_state, state)
    THEN [fillcolor |-> "green", shape |-> "rectangle", style |-> "filled"]
    ELSE [fillcolor |-> "gray", style |-> "filled"]

\* graph.add_node(q.state, **node_attributes)
add_node(g, state, node_attributes) ==
    [g EXCEPT !.events = Append(@, [event |-> "node", state |-> state,
                                    attributes |-> node_attributes])]

\* graph.add_edge(q.state, new_planner.state, label=action) for the children
\* of q, in the order q._apply() yields them
add_edges(g, state, children) ==
    [g EXCEPT !.events = @ \o [i \in 1..Len(children) |->
        [event |-> "edge", parent |-> state, child |-> children[i].state,
         label |-> children[i].description[Len(children[i].description)]]]]

StateIdle ==
    /\ suj = EmptyDict
    /\ other = NoObject
    /\ raised = "none"
    /\ op = [name |-> "State", target |-> "suj", key |-> "", value |-> None]

PlanVarsInit ==
    /\ args = [state |-> GoalState(problem.state), operators |-> problem.operators,
               end_state |-> problem.end_state,
               search_strategy |-> problem.search_strategy]
    /\ exception = NoException
    /\ first_run = NoRun
    /\ pc = "idle"
    /\ queue = <<>>
    /\ new_queue = <<>>
    /\ idx = 0
    /\ seen_states = {}
    /\ steps = 0
    /\ end_result = None
    /\ result = None
    /\ expanded = <<>>

GraphNodes == 0..(NumNodes - 1)

\* the Planner is constructed; plan() has not been called
\* the tests call plan() without a graph, the example passes nx.DiGraph()
InitCounter == problem = CounterProblem /\ graph = None /\ PlanVarsInit /\ StateIdle

InitRiver == problem = RiverProblem /\ graph = EmptyRecorder /\ PlanVarsInit /\ StateIdle

InitGraphState ==
    /\ \E start \in GraphNodes, a \in GraphNodes, c \in GraphNodes, b \in GraphNodes,
          g \in 0..NumNodes :
          problem = GraphProblem(start, a, c, b, GoalState(NewState([n |-> PyInt(g)])))
    /\ graph = None
    /\ PlanVarsInit /\ StateIdle

InitGraphPredicate ==
    /\ \E start \in GraphNodes, a \in GraphNodes, c \in GraphNodes, b \in GraphNodes,
          g \in 1..(NumNodes - 1) :
          problem = GraphProblem(start, a, c, b, GoalAtLeast(g))
    /\ graph = None
    /\ PlanVarsInit /\ StateIdle

InitGraphCompound ==
    /\ \E start \in GraphNodes, c \in GraphNodes, b \in GraphNodes, p \in 1..3,
          g \in 0..NumNodes :
          problem = CompoundProblem(start, 1, c, b, p, GoalState(NewState([n |-> PyInt(g)])))
    /\ graph = None
    /\ PlanVarsInit /\ StateIdle

Init == InitCounter \/ InitRiver \/ InitGraphState \/ InitGraphPredicate \/ InitGraphCompound

\* a plan() that does not reset the step counter
PlanCallKeepsSteps ==
    /\ pc = "idle"
    /\ steps' = steps
    /\ queue' = <<Node(problem.state, <<>>)>>
    /\ seen_states' = {}
    /\ new_queue' = <<>>
    /\ idx' = 1
    /\ pc' = "pass1"
    /\ UNCHANGED <<problem, end_result, result, expanded>>
    /\ UNCHANGED <<args, exception, first_run, graph>>
    /\ UNCHANGED stateVars

\* plan(): lines 196-201, up to the first for loop
PlanCall ==
    /\ pc = "idle"
    /\ steps' = 0
    /\ queue' = <<Node(problem.state, <<>>)>>
    /\ seen_states' = {}
    /\ new_queue' = <<>>
    /\ idx' = 1
    /\ pc' = "pass1"
    /\ UNCHANGED <<problem, end_result, result, expanded>>
    /\ UNCHANGED <<args, exception, first_run, graph>>
    /\ UNCHANGED stateVars

\* a discovery pass that sets the visit marker inside the recorder block
Pass1StepMarksInRecorderBlock ==
    /\ pc = "pass1"
    /\ idx <= Len(queue)
    /\ LET q == queue[idx]
           hashed == HashedState(q.state)
           marked == set_visit_marker(hashed, PyStr(ToString(steps + 1)))
       IN  IF ~InSeen(q.state, seen_states)
           THEN /\ steps' = steps + 1
                /\ queue' = [queue EXCEPT ![idx].state =
                                IF graph # None THEN marked ELSE hashed]
                /\ graph' = IF graph # None
                            THEN add_node(graph, marked,
                                          NodeAttributes(seen_states, problem.end_state, marked))
                            ELSE graph
                /\ problem' = IF q.description = <<>>
                              THEN [problem EXCEPT !.state = queue'[idx].state] ELSE problem
           ELSE /\ steps' = steps
                /\ queue' = [queue EXCEPT ![idx].state = hashed]
                /\ graph' = graph
                /\ problem' = IF q.description = <<>>
                              THEN [problem EXCEPT !.state = queue'[idx].state] ELSE problem
    /\ IF idx = Len(queue)
       THEN pc' = "pass2" /\ idx' = 1 /\ end_result' = None
       ELSE pc' = "pass1" /\ idx' = idx + 1 /\ end_result' = end_result
    /\ UNCHANGED <<new_queue, seen_states, result, expanded>>
    /\ UNCHANGED <<args, exception, first_run>>
    /\ UNCHANGED stateVars

\* one iteration of the first for loop (lines 203-223); after the last one,
\* end_result = None (line 226).  The root node is the Planner itself: its
\* state is self.state
Pass1Step ==
    /\ pc = "pass1"
    /\ idx <= Len(queue)
    /\ LET q == queue[idx]
           hashed == HashedState(q.state)
           marked == set_visit_marker(hashed, PyStr(ToString(steps + 1)))
       IN  IF ~InSeen(q.state, seen_states)
           THEN /\ steps' = steps + 1
                /\ queue' = [queue EXCEPT ![idx].state = marked]
                /\ graph' = IF graph # None
                            THEN add_node(graph, marked,
                                          NodeAttributes(seen_states, problem.end_state, marked))
                            ELSE graph
                /\ problem' = IF q.description = <<>>
                              THEN [problem EXCEPT !.state = queue'[idx].state] ELSE problem
           ELSE /\ steps' = steps
                /\ queue' = [queue EXCEPT ![idx].state = hashed]
                /\ graph' = graph
                /\ problem' = IF q.description = <<>>
                              THEN [problem EXCEPT !.state = queue'[idx].state] ELSE problem
    /\ IF idx = Len(queue)
       THEN pc' = "pass2" /\ idx' = 1 /\ end_result' = None
       ELSE pc' = "pass1" /\ idx' = idx + 1 /\ end_result' = end_result
    /\ UNCHANGED <<new_queue, seen_states, result, expanded>>
    /\ UNCHANGED <<args, exception, first_run>>
    /\ UNCHANGED stateVars

\* one iteration of the second for loop (lines 227-237)
Pass2Step ==
    /\ pc = "pass2"
    /\ idx <= Len(queue)
    /\ InSeen(queue[idx].state, seen_states)
          \/ MakeNextStatesRaises(problem.operators) = NoException
    /\ LET q == queue[idx]
       IN  IF ~InSeen(q.state, seen_states)
           THEN /\ end_result' = IF end_result = None /\ GoalEq(problem.end_state, q.state)
                                 THEN q ELSE end_result
                /\ seen_states' = seen_states \cup {q.state}
                /\ new_queue' = new_queue \o _apply(problem.operators, q)
                /\ expanded' = Append(expanded, filter_control_fields(q.state))
                /\ graph' = IF graph # None
                            THEN add_edges(graph, q.state, _apply(problem.operators, q))
                            ELSE graph
           ELSE UNCHANGED <<end_result, seen_states, new_queue, expanded, graph>>
    /\ IF idx = Len(queue)
       THEN pc' = "endgen" /\ idx' = 0
       ELSE pc' = "pass2" /\ idx' = idx + 1
    /\ UNCHANGED <<problem, queue, steps, result>>
    /\ UNCHANGED <<args, exception, first_run>>
    /\ UNCHANGED stateVars

\* the iteration of the second for loop in which q._apply() raises: the
\* goal test and seen_states.add(q.state) are done, the children yielded
\* before the exception are in new_queue, and plan() ends with the exception
Pass2Raise ==
    /\ pc = "pass2"
    /\ idx <= Len(queue)
    /\ ~InSeen(queue[idx].state, seen_states)
    /\ MakeNextStatesRaises(problem.operators) # NoException
    /\ LET q == queue[idx]
       IN  /\ end_result' = IF end_result = None /\ GoalEq(problem.end_state, q.state)
                             THEN q ELSE end_result
           /\ seen_states' = seen_states \cup {q.state}
           /\ new_queue' = new_queue \o _apply(problem.operators, q)
           /\ expanded' = Append(expanded, filter_control_fields(q.state))
           /\ graph' = IF graph # None
                       THEN add_edges(graph, q.state, _apply(problem.operators, q))
                       ELSE graph
    /\ exception' = MakeNextStatesRaises(problem.operators)
    /\ pc' = "raised"
    /\ UNCHANGED <<problem, args, first_run, queue, idx, steps, result>>
    /\ UNCHANGED stateVars

\* if end_result: return end_result (lines 239-240)
ReturnResult ==
    /\ pc = "endgen"
    /\ end_result # None
    /\ result' = end_result
    /\ pc' = "done"
    /\ UNCHANGED <<problem, queue, new_queue, idx, seen_states, steps, end_result, expanded>>
    /\ UNCHANGED <<args, exception, first_run, graph>>
    /\ UNCHANGED stateVars

\* a next generation taken from the strategy: a stack hands it out last-in first-out
NextGenerationUsingStrategy ==
    /\ pc = "endgen"
    /\ end_result = None
    /\ Len(new_queue) # 0
    /\ queue' = IF problem.search_strategy.kind = "DepthFirstSearchStrategy"
                THEN [i \in 1..Len(new_queue) |-> new_queue[Len(new_queue) + 1 - i]]
                ELSE new_queue
    /\ new_queue' = <<>>
    /\ idx' = 1
    /\ pc' = "pass1"
    /\ UNCHANGED <<problem, seen_states, steps, end_result, result, expanded>>
    /\ UNCHANGED <<args, exception, first_run, graph>>
    /\ UNCHANGED stateVars

\* queue = new_queue and the next iteration of the while loop (lines 242, 200-201)
NextGeneration ==
    /\ pc = "endgen"
    /\ end_result = None
    /\ Len(new_queue) # 0
    /\ queue' = new_queue
    /\ new_queue' = <<>>
    /\ idx' = 1
    /\ pc' = "pass1"
    /\ UNCHANGED <<problem, seen_states, steps, end_result, result, expanded>>
    /\ UNCHANGED <<args, exception, first_run, graph>>
    /\ UNCHANGED stateVars

\* queue = new_queue, the while loop ends, return None (lines 242, 200, 244)
ReturnNone ==
    /\ pc = "endgen"
    /\ end_result = None
    /\ Len(new_queue) = 0
    /\ queue' = new_queue
    /\ result' = None
    /\ pc' = "done"
    /\ UNCHANGED <<problem, new_queue, idx, seen_states, steps, end_result, expanded>>
    /\ UNCHANGED <<args, exception, first_run, graph>>
    /\ UNCHANGED stateVars

Next ==
    \/ PlanCall
    \/ Pass1Step
    \/ Pass2Step
    \/ Pass2Raise
    \/ ReturnResult
    \/ NextGeneration
    \/ ReturnNone

Spec == Init /\ [][Next]_vars

\* the runs on the generated operator graphs that start from the state {n: 0}
FairInit ==
    (InitGraphState \/ InitGraphPredicate \/ InitGraphCompound) /\ problem.state["n"].val = 0

\* plan() is synchronous code that runs to completion: nothing suspends it
FairSpec == FairInit /\ [][Next]_vars /\ WF_vars(Next)

-----------------------------------------------------------------------------
(* The caller: it constructs a Planner from its arguments, runs plan(),    *)
(* and then constructs a second Planner from the same state, operators     *)
(* and goal with the other strategy and runs plan() again.                 *)

\* the arguments callers pass: valid ones, and a str or None in their place
CallerStates == {GoalState(NewState([n |-> PyInt(0)])), PyStr("foo"), None}

CallerOperators ==
    {<<Walk(a, c), Fork(b)>> : a \in {1, 2}, c \in GraphNodes, b \in GraphNodes}
        \cup {InsertAt(<<Walk(1, 0), Fork(1)>>, p, CompoundOperator) : p \in 1..3}
        \cup {<<>>, <<PyStr("foo")>>, <<Walk(1, 0), PyStr("foo")>>}

CallerEndStates ==
    {GoalState(NewState([n |-> PyInt(g)])) : g \in 0..NumNodes}
        \cup {GoalAtLeast(g) : g \in 1..(NumNodes - 1)}
        \cup {PyStr("invalid-end-state"), None}

CallerStrategies ==
    {BreadthFirstSearchStrategy, DepthFirstSearchStrategy,
     PyStr("invalid-search-strategy"), None}

CallerInit ==
    /\ args \in [state : CallerStates, operators : CallerOperators,
                  end_state : CallerEndStates, search_strategy : CallerStrategies]
    /\ problem = NoProblem
    /\ exception = NoException
    /\ first_run = NoRun
    /\ graph \in {None, EmptyRecorder}
    /\ pc = "new"
    /\ queue = <<>>
    /\ new_queue = <<>>
    /\ idx = 0
    /\ seen_states = {}
    /\ steps = 0
    /\ end_result = None
    /\ result = None
    /\ expanded = <<>>
    /\ StateIdle

\* Planner(state, operators, end_state, search_strategy)
Construct ==
    /\ pc = "new"
    /\ LET e == InitRaises(args.state, args.operators, args.end_state, args.search_strategy)
       IN  IF e # NoException
           THEN /\ pc' = "failed"
                /\ exception' = e
                /\ problem' = problem
           ELSE /\ pc' = "idle"
                /\ exception' = exception
                /\ problem' = Planner(args.state.dict, args.operators, args.end_state,
                                      args.search_strategy)
    /\ steps' = 0
    /\ UNCHANGED <<args, first_run, graph, queue, new_queue, idx, seen_states, end_result,
                   result, expanded>>
    /\ UNCHANGED stateVars

\* what a plan() run leaves behind for its caller
Outcome ==
    [pc |-> pc, result |-> result, exception |-> exception, steps |-> steps,
     seen_states |-> seen_states, expanded |-> expanded, graph |-> graph]

OtherStrategy(search_strategy) ==
    IF search_strategy.kind = "BreadthFirstSearchStrategy"
    THEN DepthFirstSearchStrategy ELSE BreadthFirstSearchStrategy

\* after the first run: Planner(state, operators, end_state, other strategy),
\* and plan() with a recorder if the first run had one
Replan ==
    /\ pc \in {"done", "raised"}
    /\ first_run = NoRun
    /\ first_run' = Outcome
    /\ problem' = Planner(problem.state, problem.operators, problem.end_state,
                          OtherStrategy(problem.search_strategy))
    /\ exception' = NoException
    /\ pc' = "idle"
    /\ queue' = <<>>
    /\ new_queue' = <<>>
    /\ idx' = 0
    /\ seen_states' = {}
    /\ steps' = 0
    /\ end_result' = None
    /\ result' = None
    /\ expanded' = <<>>
    /\ graph' = IF graph # None THEN EmptyRecorder ELSE None
    /\ UNCHANGED args
    /\ UNCHANGED stateVars

\* after the first run: plan() is called again on the same Planner, with or
\* without a recorder; the locals of the first call are gone, self.steps and
\* self.state are as the first call left them
PlanAgain ==
    /\ pc \in {"done", "raised"}
    /\ first_run = NoRun
    /\ first_run' = Outcome
    /\ \E g \in {None, EmptyRecorder} : graph' = g
    /\ exception' = NoException
    /\ pc' = "idle"
    /\ end_result' = None
    /\ result' = None
    /\ expanded' = <<>>
    /\ UNCHANGED <<problem, args, queue, new_queue, idx, seen_states, steps>>
    /\ UNCHANGED stateVars

CallerNext ==
    \/ Construct
    \/ PlanCall
    \/ Pass1Step
    \/ Pass2Step
    \/ Pass2Raise
    \/ ReturnResult
    \/ NextGeneration
    \/ ReturnNone
    \/ Replan
    \/ PlanAgain

CallerSpec == CallerInit /\ [][CallerNext]_vars

-----------------------------------------------------------------------------
(* Properties of plan() (specifications Spec and FairSpec).                *)

\* the field maps one operator application away from the field map f
Successors(f) ==
    LET ops == problem.operators
    IN  UNION {{Apply(ops[j], f)[i][1] : i \in 1..Len(Apply(ops[j], f))} :
                 j \in {k \in 1..Len(ops) : ops[k].name # "CompoundOperator" /\ CanApply(ops[k], f)}}

\* the least number of operator applications from a state of frontier to a
\* state that satisfies the goal, plus k; -1 when there is none
RECURSIVE Distance(_, _, _)
Distance(frontier, visited, k) ==
    IF \E f \in frontier : GoalEq(problem.end_state, f) THEN k
    ELSE IF frontier = {} THEN -1
    ELSE Distance((UNION {Successors(f) : f \in frontier}) \ (visited \cup frontier),
                  visited \cup frontier, k + 1)

ShortestDistance == Distance({filter_control_fields(problem.state)}, {}, 0)

\* the field maps reachable from the start state
RECURSIVE ReachableFrom(_, _)
ReachableFrom(frontier, visited) ==
    IF frontier = {} THEN visited
    ELSE ReachableFrom((UNION {Successors(f) : f \in frontier}) \ (visited \cup frontier),
                       visited \cup frontier)

Reachable == ReachableFrom({filter_control_fields(problem.state)}, {})

\* the counter of test_tiny_smoke_test can grow for ever; the other state spaces are finite
FiniteStateSpace == problem.operators[1].name # "AddN"

Returned == pc = "done"

\* C1: when a Breadth-First plan() returns a result, the number of its action
\* labels is the shortest-path distance from the start state to the nearest
\* state that satisfies the goal.
C1_BreadthFirstShortestPath ==
    (Returned /\ result # None /\ problem.search_strategy.kind = "BreadthFirstSearchStrategy")
        => Len(result.description) = ShortestDistance

\* C1 witness: a result of three or more actions was returned on a generated
\* graph in which a state had been discovered a second time
C1_Witness ==
    /\ Returned /\ result # None /\ Len(result.description) >= 3
    /\ problem.operators[1].name = "Walk"
    /\ Len(expanded) < steps

\* C2: within one plan() run no state value is expanded more than once.
C2_NoStateExpandedTwice ==
    \A i \in 1..Len(expanded), j \in 1..Len(expanded) :
        i # j => expanded[i] # expanded[j]

\* C2 witness: a generation held the same undiscovered state in two nodes
\* (both got a visit marker), and a state of an earlier generation came back
C2_Witness ==
    /\ pc = "endgen"
    /\ \E i \in 1..Len(queue), j \in 1..Len(queue) :
          /\ i < j
          /\ StateEq(queue[i].state, queue[j].state)
          /\ has_visit_marker(queue[i].state) /\ has_visit_marker(queue[j].state)
    /\ \E i \in 1..Len(queue) : ~has_visit_marker(queue[i].state)

\* the field maps the sequence of labels leads to from the field maps of from
RECURSIVE Replay(_, _)
Replay(from, labels) ==
    IF labels = <<>> THEN from
    ELSE LET ops == problem.operators
             step(f) == UNION {{Apply(ops[j], f)[i][1] :
                                  i \in {m \in 1..Len(Apply(ops[j], f)) :
                                           Apply(ops[j], f)[m][2] = Head(labels)}} :
                               j \in {k \in 1..Len(ops) :
                                         ops[k].name # "CompoundOperator" /\ CanApply(ops[k], f)}}
         IN  Replay(UNION {step(f) : f \in from}, Tail(labels))

IsRealPath(node) ==
    filter_control_fields(node.state)
        \in Replay({filter_control_fields(problem.state)}, node.description)

\* C3: a returned result satisfies the goal and its labels are a real path:
\* the root has the empty path, the nodes of a generation have the paths of
\* their parents plus one label, and replaying the labels of a node from the
\* initial state through applicable operators ends in the state of the node.
C3_ResultIsGoalAndRealPath ==
    /\ (Returned /\ result # None)
          => GoalEq(problem.end_state, result.state) /\ IsRealPath(result)
    /\ pc # "idle" => \A i \in 1..Len(queue) :
          /\ IsRealPath(queue[i])
          /\ Len(queue[i].description) = Len(queue[1].description)
          /\ Len(expanded) = 0 => queue[i].description = <<>>
    /\ \A i \in 1..Len(new_queue) :
          /\ IsRealPath(new_queue[i])
          /\ Len(new_queue[i].description) = Len(queue[1].description) + 1

\* C3 witness: a path of three or more labels was returned
C3_Witness ==
    /\ Returned /\ result # None
    /\ Len(result.description) >= 3
    /\ GoalEq(problem.end_state, result.state)

\* no reachable state satisfies the goal, in a finite state space
GoalUnreachable ==
    /\ FiniteStateSpace
    /\ \A i \in 1..Len(problem.operators) : problem.operators[i].name # "CompoundOperator"
    /\ \A f \in Reachable : ~GoalEq(problem.end_state, f)

AllReachableExpanded == Reachable = {expanded[i] : i \in 1..Len(expanded)}

\* C4: when no state of a finite reachable state space satisfies the goal,
\* plan() terminates and returns None, after it expanded every reachable state.
C4_UnreachableGoalExhausts ==
    GoalUnreachable ~> (Returned /\ result = None /\ AllReachableExpanded)

\* C4 witness: None was returned after three or more states were expanded
C4_Witness ==
    /\ Returned /\ result = None
    /\ GoalUnreachable
    /\ Len(expanded) >= 3

IsRiver == problem.operators[1].name = "BoatAcross"

\* C5 as stated: the river-crossing run returns a path of exactly 7 labels.
C5_RiverSevenActions ==
    (IsRiver /\ Returned) => (result # None /\ Len(result.description) = 7)

Crossings(description) ==
    Len(SelectSeq(description, LAMBDA l : l \in {"boat to the right shore",
                                                  "boat to the left shore"}))

\* C5 (amended): the river-crossing run ends Solved, and the returned path
\* has exactly 17 labels, 7 of them boat crossings.
C5_RiverSeventeenActions ==
    (IsRiver /\ Returned) =>
        /\ result # None
        /\ StateEq(result.state, RiverEnd)
        /\ Len(result.description) = 17
        /\ Crossings(result.description) = 7

\* C5 witness: the river-crossing run returned a result
C5_Witness == IsRiver /\ Returned /\ result # None /\ Len(result.description) = 17

\* the shore without the farmer holds neither goose and fox nor goose and beans
FarShoreSafe(state) ==
    LET far == IF state["farmer_location"] = Left THEN ShoreRight(state["shore"])
               ELSE ShoreLeft(state["shore"])
    IN  /\ ~(Goose \in far /\ Fox \in far)
        /\ ~(Goose \in far /\ BagOfBeans \in far)

\* C6: in the river-crossing run every state that enters the frontier keeps
\* the safety condition on the shore where the farmer is not.
C6_RiverFrontierSafe ==
    IsRiver => /\ \A i \in 1..Len(queue) : FarShoreSafe(queue[i].state)
               /\ \A i \in 1..Len(new_queue) : FarShoreSafe(new_queue[i].state)

\* C6 witness: the frontier holds a state with the farmer on the right shore and
\* two objects alone on the left shore, and one with the goose alone
C6_Witness ==
    /\ IsRiver
    /\ \E i \in 1..Len(queue) :
          /\ queue[i].state["farmer_location"] = Right
          /\ Cardinality(ShoreLeft(queue[i].state["shore"])) = 2
    /\ \E i \in 1..Len(queue) :
          /\ queue[i].state["farmer_location"] = Left
          /\ ShoreRight(queue[i].state["shore"]) = {Goose}

IsCounter == problem.operators[1].name = "AddN"

\* C7: Scenario A returns a result whose state equals {counter: 5} and whose
\* labels are "add 1", "add 2", "add 2".
C7_ScenarioAResult ==
    (IsCounter /\ Returned) =>
        /\ result # None
        /\ StateEq(result.state, [counter |-> PyInt(5)])
        /\ result.description = <<"add 1", "add 2", "add 2">>

\* C7 witness: Scenario A returned, having found the goal in the generation of
\* the nodes three steps from the start
C7_Witness ==
    /\ IsCounter /\ Returned /\ result # None
    /\ Len(queue) = 4 /\ Len(queue[1].description) = 3

-----------------------------------------------------------------------------
(* Properties of the State object (specification StateSpec).               *)

\* the values of StateValues that have no hash: the list and the tuple holding
\* a list
NonHashableValues == {PyList(<<PyInt(1)>>), PyTuple(<<PyList(<<>>)>>)}

\* the step just taken was a setattr on suj / on other
IsSetattrSuj == op'.name = "setattr" /\ op'.target = "suj"
IsSetattrOther == op'.name = "setattr" /\ op'.target = "other"

\* C8: setting any field other than the visit marker on a frozen State fails
\* with AttributeError and leaves the State's __dict__ (fields, frozen flag,
\* cached hash) as it was; set_visit_marker on a frozen State succeeds.
C8_FrozenSetAlwaysFails ==
    [][/\ (IsSetattrSuj /\ is_frozen(suj) /\ op'.key # "__visitmarker")
            => (raised' = "AttributeError" /\ suj' = suj)
       /\ (op'.name = "set_visit_marker" /\ is_frozen(suj))
            => (raised' = "none" /\ suj'["__visitmarker"] = op'.value
                /\ filter_control_fields(suj') = filter_control_fields(suj))]_vars

\* C9 as stated: a non-hashable value assigned to any field of a State,
\* mutable or frozen, fails with TypeError and leaves the __dict__ unchanged.
C9_NonHashableAlwaysTypeError ==
    [][/\ (IsSetattrSuj /\ op'.value \in NonHashableValues) => (raised' = "TypeError" /\ suj' = suj)
       /\ (IsSetattrOther /\ op'.value \in NonHashableValues)
            => (raised' = "TypeError" /\ other' = other)]_vars

\* the frozen test of __setattr__ comes first and applies to this key
FrozenRejects(d, key) == is_frozen(d) /\ key \notin {"__visitmarker", "__dict__"}

\* C9 (amended): a non-hashable value assigned to any field of a State always
\* fails and leaves the __dict__ unchanged: with AttributeError when the State
\* is frozen and the field is neither the visit marker nor __dict__, with
\* TypeError in every other case.
C9_NonHashableSetFails ==
    [][/\ (IsSetattrSuj /\ op'.value \in NonHashableValues)
            => /\ suj' = suj
               /\ raised' = IF FrozenRejects(suj, op'.key) THEN "AttributeError"
                            ELSE "TypeError"
       /\ (IsSetattrOther /\ op'.value \in NonHashableValues)
            => /\ other' = other
               /\ raised' = IF FrozenRejects(other, op'.key) THEN "AttributeError"
                            ELSE "TypeError"]_vars

\* C9 witness: a non-hashable visit marker was assigned to a frozen State that
\* has a field, and the assignment raised TypeError
C9_Witness ==
    /\ op.name = "setattr" /\ op.target = "suj" /\ op.value \in NonHashableValues
    /\ is_frozen(suj) /\ "attribute" \in DOMAIN suj
    /\ raised = "TypeError"

\* C10: the State returned by s.copy() equals s, is not frozen, has no visit
\* marker and no cached hash, and accepts every assignment of a hashable value.
C10_CopyEqualAndMutable ==
    op.name = "copy" =>
        /\ StateEq(other, suj) /\ StateEq(suj, other)
        /\ ~is_frozen(other)
        /\ ~has_visit_marker(other)
        /\ "__hash_value" \notin DOMAIN other
        /\ \A key \in StateKeys, value \in StateValues :
              value \notin NonHashableValues =>
                  /\ SetattrRaises(other, key, value) = "none"
                  /\ __setattr__(other, key, value)[key] = value

\* C10 witness: a frozen State with a field and a visit marker was copied
C10_Witness ==
    /\ op.name = "copy"
    /\ is_frozen(suj) /\ has_visit_marker(suj) /\ "attribute" \in DOMAIN suj
    /\ other # NoObject

\* the step just taken set the visit marker of suj
IsMarkerSetSuj ==
    \/ op'.name = "set_visit_marker"
    \/ IsSetattrSuj /\ op'.key = "__visitmarker" /\ raised' = "none"

\* the States suj is compared with
EqualityProbes ==
    {EmptyDict, [attribute |-> PyInt(1)], suj} \cup (IF other = NoObject THEN {} ELSE {other})

\* C11: setting or overwriting the visit marker of a State, before or after
\* freezing, changes neither its hash nor the outcome of comparing it with
\* any other State.
C11_VisitMarkerKeepsHashAndEquality ==
    [][IsMarkerSetSuj =>
          /\ __hash__(suj') = __hash__(suj)
          /\ \A x \in EqualityProbes :
                /\ StateEq(suj', x) = StateEq(suj, x)
                /\ StateEq(x, suj') = StateEq(x, suj)]_vars

\* C11 witness: the visit marker of a frozen State with a field was set while
\* an equal copy of it existed
C11_Witness ==
    /\ op.name = "set_visit_marker"
    /\ is_frozen(suj) /\ has_visit_marker(suj) /\ "attribute" \in DOMAIN suj
    /\ other # NoObject /\ StateEq(suj, other)

\* C15: hashing a State that is not frozen freezes it: afterwards is_frozen()
\* holds and every field set other than the visit marker fails.
C15_HashFreezes ==
    [][(op'.name = "hash" /\ ~is_frozen(suj)) =>
          /\ is_frozen(suj')
          /\ \A key \in StateKeys \ {"__visitmarker"}, value \in StateValues :
                SetattrRaises(suj', key, value) # "none"]_vars

\* C16: freeze() and hash() on a frozen State leave its __dict__ (cached
\* hash, fields, frozen flag) unchanged, hash() returns the cached hash, and no
\* operation makes a frozen State mutable again or changes its cached hash.
C16_FreezeIdempotentIrreversible ==
    [][/\ (op'.name \in {"freeze", "hash"} /\ is_frozen(suj)) => suj' = suj
       /\ (op'.name = "hash" /\ is_frozen(suj)) => op'.value = suj["__hash_value"]
       /\ is_frozen(suj) =>
             /\ is_frozen(suj')
             /\ suj'["__hash_value"] = suj["__hash_value"]]_vars

\* C16 witness: the attempt to clear the frozen flag of a frozen State that has
\* a field and a visit marker was rejected
C16_Witness ==
    /\ op.name = "setattr" /\ op.key = "__isfrozen"
    /\ raised = "AttributeError"
    /\ is_frozen(suj) /\ has_visit_marker(suj) /\ "attribute" \in DOMAIN suj

\* the __dict__ without the visit marker, the frozen flag and the cached hash
FieldsOf(d) == [k \in DOMAIN d \ {"__visitmarker", "__isfrozen", "__hash_value"} |-> d[k]]

-----------------------------------------------------------------------------
(* Further properties of plan() (specification Spec).                      *)

\* C14: in Scenario A (start {counter: 0}, operators add 1 and add 2, goal
\* {counter: 5}) the step counter equals 6 when plan() returns.
C14_ScenarioASixSteps ==
    (IsCounter /\ Returned) => steps = 6

\* the field maps of the nodes of the sequence q that carry a visit marker
MarkedIn(q) ==
    {filter_control_fields(q[i].state) : i \in {j \in 1..Len(q) : has_visit_marker(q[j].state)}}

\* the distinct state values that were given a visit marker so far
DistinctMarked == {filter_control_fields(e) : e \in seen_states} \cup MarkedIn(queue)

\* C18: within each generation the goal test precedes expansion: when an
\* unseen node of the frontier satisfies the goal the run returns that node
\* and no node of that generation was expanded (nothing was added to the
\* seen set, no operator was applied).
C18_GoalTestPrecedesExpansion ==
    (Returned /\ result # None) =>
        /\ new_queue = <<>>
        /\ \A i \in 1..Len(queue) :
              /\ ~InSeen(queue[i].state, seen_states)
              /\ \A j \in 1..Len(expanded) : expanded[j] # filter_control_fields(queue[i].state)

\* C19: the step counter counts distinct discovered states: after every
\* discovery pass, and when plan() returns, steps is the number of distinct
\* state values that were given a visit marker so far.
C19_StepsCountDistinctStates ==
    (pc \in {"pass2", "endgen", "done"}) => steps = Cardinality(DistinctMarked)

\* the operator list of the run holds a CompoundOperator
HasCompound ==
    \E i \in 1..Len(problem.operators) : problem.operators[i].name = "CompoundOperator"

\* the number of successors the operators before the first CompoundOperator
\* have in the state
RECURSIVE YieldedBeforeCompound(_, _, _)
YieldedBeforeCompound(ops, state, i) ==
    IF i > Len(ops) \/ ops[i].name = "CompoundOperator" THEN 0
    ELSE (IF CanApply(ops[i], state) THEN Len(Apply(ops[i], state)) ELSE 0)
         + YieldedBeforeCompound(ops, state, i + 1)

\* C13: a CompoundOperator in the operator list is fatal: when plan() expands
\* a node it fails with the ValueError of the compound operator at the point
\* where the loop over the operators reaches it (the operators before it have
\* yielded their successors), and such a run never returns a result or None.
C13_CompoundOperatorIsFatal ==
    [][HasCompound =>
          /\ pc' # "done"
          /\ result' = None
          /\ (pc = "pass2" /\ ~InSeen(queue[idx].state, seen_states)) =>
                /\ pc' = "raised"
                /\ exception' = [type |-> "ValueError",
                                 message |-> "I didn't code compound operators yet!"]
                /\ Len(new_queue') =
                      Len(new_queue) + YieldedBeforeCompound(problem.operators, queue[idx].state, 1)]_vars

\* C13 witness: plan() raised the ValueError while it expanded a node that
\* satisfies the goal, after an operator before the CompoundOperator had
\* yielded a successor
C13_Witness ==
    /\ pc = "raised"
    /\ exception.type = "ValueError"
    /\ HasCompound
    /\ end_result # None
    /\ Len(new_queue) >= 1

-----------------------------------------------------------------------------
(* Properties of the caller's runs (specification CallerSpec).             *)

\* an argument of Planner(...) is not of the class the constructor asks for
InvalidArguments ==
    \/ args.state.kind \notin {"State", "AtLeast"}
    \/ \E i \in 1..Len(args.operators) : "name" \notin DOMAIN args.operators[i]
    \/ args.end_state.kind \notin {"State", "AtLeast"}
    \/ args.search_strategy.kind \notin {"BreadthFirstSearchStrategy", "DepthFirstSearchStrategy"}

\* the message names an argument that is invalid, by its role and its value
NamesOffendingArgument(message) ==
    \/ /\ args.state.kind \notin {"State", "AtLeast"}
       /\ message = "Not a valid State: " \o PyStrOf(args.state)
    \/ /\ \E i \in 1..Len(args.operators) : "name" \notin DOMAIN args.operators[i]
       /\ message = "Not all Operators are valid: " \o PyListStr(args.operators)
    \/ /\ args.end_state.kind \notin {"State", "AtLeast"}
       /\ message = "Not a valid State: " \o PyStrOf(args.end_state)
    \/ /\ args.search_strategy.kind \notin {"BreadthFirstSearchStrategy", "DepthFirstSearchStrategy"}
       /\ message = "Not a valid SearchStrategy: " \o PyStrOf(args.search_strategy)

\* C12: constructing a Planner with an initial value that is not a State, a
\* non-Operator in the operator list, a goal that is not a State or a strategy
\* that is not a SearchStrategy fails with a TypeError that names the
\* offending argument, and no search step runs: no Planner exists, nothing is
\* queued, expanded or counted, and nothing happens after the failure.
C12_InvalidArgumentsFail ==
    [][/\ (pc = "new" /\ InvalidArguments) =>
             /\ pc' = "failed"
             /\ exception'.type = "TypeError"
             /\ NamesOffendingArgument(exception'.message)
             /\ problem' = NoProblem /\ steps' = 0
             /\ queue' = <<>> /\ seen_states' = {} /\ expanded' = <<>>
       /\ pc = "failed" => FALSE]_vars

\* C12 witness: the constructor rejected an operator list whose second element
\* is not an Operator, the other arguments being valid
C12_Witness ==
    /\ pc = "failed"
    /\ exception = TypeError("Not all Operators are valid: [<Walk object>, 'foo']")
    /\ args.state.kind = "State" /\ args.end_state.kind = "State"
    /\ args.search_strategy.kind = "DepthFirstSearchStrategy"
    /\ steps = 0 /\ expanded = <<>>

\* C20: the strategy does not change the outcome of a run: for the same
\* initial state, operators and goal, the run with the Breadth-First strategy
\* and the run with the Depth-First strategy end the same way (both return, or
\* both raise), return the same result (terminal state and labels, or None)
\* and the same step counter, and discover and expand states in the same order
\* (the seen states carry their discovery numbers as visit markers).
C20_StrategyDoesNotChangeOutcome ==
    (first_run # NoRun /\ pc \in {"done", "raised"}) =>
        /\ first_run.pc = pc
        /\ first_run.result = result
        /\ first_run.steps = steps
        /\ first_run.seen_states = seen_states
        /\ first_run.expanded = expanded
        /\ first_run.exception = exception

\* C20 witness: a Breadth-First run and then a Depth-First run returned a path
\* of two or more labels after a generation of several nodes
C20_Witness ==
    /\ first_run # NoRun /\ pc = "done"
    /\ args.search_strategy.kind = "BreadthFirstSearchStrategy"
    /\ problem.search_strategy.kind = "DepthFirstSearchStrategy"
    /\ result # None /\ Len(result.description) >= 2
    /\ Len(queue) >= 2

\* C23: copy() has no effect on its source and the copy is independent of it:
\* s.copy() leaves the __dict__ of s (fields, frozen flag, visit marker, cached
\* hash) unchanged, and a later field set on the copy changes neither the
\* fields of s, nor its hash, nor what s is equal to.
C23_CopyLeavesSourceAlone ==
    [][(op'.name = "copy" \/ IsSetattrOther) =>
          /\ suj' = suj
          /\ FieldsOf(suj') = FieldsOf(suj)
          /\ is_frozen(suj') = is_frozen(suj)
          /\ __hash__(suj') = __hash__(suj)
          /\ \A x \in {EmptyDict, [attribute |-> PyInt(1)], suj} :
                StateEq(suj', x) = StateEq(suj, x)]_vars

\* C23 witness: a field of the copy of a frozen State with a field and a
\* visit marker was set, and the copy no longer equals its source
C23_Witness ==
    /\ op.name = "setattr" /\ op.target = "other" /\ raised = "none"
    /\ is_frozen(suj) /\ has_visit_marker(suj) /\ "attribute" \in DOMAIN suj
    /\ other # NoObject /\ ~StateEq(suj, other)

-----------------------------------------------------------------------------
(* Properties of the strategies (specification StrategySpec).              *)

\* the elements the strategy holds, oldest first
WorkList(strategy) == IF "queue" \in DOMAIN strategy THEN strategy.queue ELSE strategy.stack

\* C22: on a non-empty work-list take-next (pop_next_state) removes and
\* returns the oldest element with the Breadth-First strategy and the most
\* recently added one with the Depth-First strategy, under any interleaving of
\* adds and take-nexts; on an empty work-list it fails with an error.
C22_TakeNextOrder ==
    [][op'.name = "pop_next_state" =>
          IF WorkList(suj) # <<>>
          THEN /\ raised' = "none"
               /\ suj.kind = "BreadthFirstSearchStrategy" =>
                     /\ op'.value = Head(WorkList(suj))
                     /\ WorkList(suj') = Tail(WorkList(suj))
               /\ suj.kind = "DepthFirstSearchStrategy" =>
                     /\ op'.value = WorkList(suj)[Len(WorkList(suj))]
                     /\ WorkList(suj') = SubSeq(WorkList(suj), 1, Len(WorkList(suj)) - 1)
          ELSE raised' # "none" /\ suj' = suj]_vars

-----------------------------------------------------------------------------
(* Properties of recorded and repeated runs (specification CallerSpec).    *)

\* the finished run and the caller's first run differ in having a recorder
RecorderDiffers == (first_run.graph = None) # (graph = None)

\* the parent of every add_edge call was the state of an earlier add_node call
EdgeParentsWereReported(g) ==
    \A i \in 1..Len(g.events) :
        g.events[i].event = "edge" =>
            \E j \in 1..(i - 1) :
                g.events[j].event = "node" /\ g.events[j].state = g.events[i].parent

\* C21: a recorder has no influence on the search: for the same planner
\* inputs plan() with a recorder and plan() without one end the same way with
\* the same result, the same step counter and the same visit markers; and the
\* parent state of every edge notification was reported by a node
\* notification earlier in the same run.
C21_RecorderHasNoInfluence ==
    /\ (first_run # NoRun /\ pc \in {"done", "raised"} /\ RecorderDiffers) =>
          /\ first_run.pc = pc
          /\ first_run.result = result
          /\ first_run.steps = steps
          /\ first_run.seen_states = seen_states
          /\ first_run.exception = exception
    /\ graph.kind = "Recorder" => EdgeParentsWereReported(graph)

\* C21 witness: a run without a recorder and then a run with one returned a
\* path of two or more labels, and the recorder received edges
C21_Witness ==
    /\ first_run # NoRun /\ pc = "done"
    /\ first_run.graph = None /\ graph.kind = "Recorder"
    /\ result # None /\ Len(result.description) >= 2
    /\ \E i \in 1..Len(graph.events) : graph.events[i].event = "edge"

\* the finished run is a second plan() call on the Planner of the first run
SamePlanner == first_run # NoRun /\ problem.search_strategy = args.search_strategy

\* C24: plan() is repeatable on one Planner: a second call starts with an
\* empty seen set and the step counter reset to 0 (the root is discovered as
\* number 1 again), and it ends as the first call did, with the same terminal
\* state and labels and the same step counter.
C24_PlanIsRepeatable ==
    /\ (SamePlanner /\ pc = "pass1" /\ idx = 1 /\ queue[1].description = <<>>) =>
          seen_states = {} /\ steps = 0
    /\ (SamePlanner /\ pc \in {"done", "raised"}) =>
          /\ first_run.pc = pc
          /\ first_run.result = result
          /\ first_run.steps = steps

\* C24 witness: the second call on a Planner whose root state was frozen and
\* marked by the first call returned a path of two or more labels
C24_Witness ==
    /\ SamePlanner /\ pc = "done"
    /\ is_frozen(problem.state) /\ has_visit_marker(problem.state)
    /\ (first_run.graph = None) = (graph = None)
    /\ result # None /\ Len(result.description) >= 2
    /\ steps >= 3

====
